---- MODULE Spec2Model ----
(***************************************************************************)
(* Model of the endpoint registry (helpers/endpoint_registry.py) and of    *)
(* the batch execution engine (helpers/combined_operations.py) of          *)
(* graphql-mcp-python.                                                     *)
(*                                                                         *)
(* Scheduling.  The program runs on one asyncio event loop                 *)
(* (main.py: asyncio.run(main())).  A coroutine runs without interruption  *)
(* until it suspends.  `async with self._lock` suspends only when the lock *)
(* is taken; awaiting a coroutine that never suspends (self._remove_tool)  *)
(* does not suspend either.  So a registry operation that finds the lock   *)
(* free acquires it, runs its body and releases it in one step; a caller   *)
(* that finds the lock taken suspends in acquire.  Steps of different      *)
(* callers interleave only there and at Gateway (network) calls.           *)
(***************************************************************************)
EXTENDS Integers, Sequences, FiniteSets, TLC

\* ------------------------------------------------------------------ bounds
MaxCalls == 4       \* registry calls made by the callers
MaxTime == 1        \* the clock runs over 0..MaxTime (hours)
MaxAccess == 2      \* accesses the callers record per statistics block
MaxOps == 3         \* operations in a batch
MaxChurn == 2       \* registry calls made while a batch is around
MaxFetch == 3       \* calls made where get_schema_async is called
MaxServiceOps == 1  \* operations in a batch next to get_schema_async
MaxLiveOps == 2     \* operations in a batch next to cleanup_stale_endpoints
MaxToolCalls == 5   \* registry calls made where only tools are registered

\* --------------------------------------------------------- input alphabets
Callers == {"c1", "c2"}              \* concurrent tool invocations
Names == {"A", "B"}                  \* endpoint names
Tools == {"t1", "t2"}                \* tool names
Infos == {"u1", "u2"}                \* GraphQlEndpointInfo values (by url)
Versions == {"1.0", "2.0"}           \* SchemaInfo values (by version)
RegisterSchemas == {"None", "1.0"}   \* schema_info arguments of register
MaxAges == {0, 1}                    \* max_age_hours arguments
BatchNames == {"A", "ghost"}         \* endpoint names used by operations
ExecutionModes == {"sequential", "parallel", "PARALLEL"}
Outcomes == {"ok", "graphql", "timeout"}   \* what the HTTP call may yield
IntrospectionResults == {"None", "1.0", "2.0"}   \* what an introspection may yield
\* Every way the HTTP call may end: the three above, a connection failure,
\* another fault of the client, a status other than 200, a body that is
\* not JSON, and a JSON body that is not an object with a list of errors.
HttpOutcomes == Outcomes \cup {"connect", "fault", "status", "json", "shape"}

None == "None"                       \* Python None for string-valued slots
NoTime == -1                         \* Python None for datetime-valued slots
Free == "free"                       \* the lock is not held
BatchTask == "batch"                 \* the tasks of execute_batch, as a caller

VARIABLES
    endpoints,          \* _endpoints: name -> info
    endpoint_schemas,   \* _endpoint_schemas: name -> schema
    tool_to_endpoint,   \* _tool_to_endpoint: tool -> name
    endpoint_to_tools,  \* _endpoint_to_tools: name -> set of tools
    endpoint_stats,     \* _endpoint_stats: name -> statistics block
    last_updated,       \* _last_updated: name -> time
    lock,               \* _lock: Free or the caller holding it
    pc,                 \* position of each caller
    now,                \* datetime.utcnow()
    calls,              \* number of registry calls made so far
    last,               \* record of the most recent registry call
    fetching,           \* per caller: the get_schema_async call in progress
    initialized,        \* _initialized of the one instance of the registry
    batch,              \* the execute_batch_operations_async invocation
    opc,                \* position of each operation of the batch
    opres,              \* parallel mode: the value each task returned
    results,            \* the `results` list
    response,           \* the returned BatchExecutionResponse
    gateway_calls,      \* indices whose http_client.execute_query was called
    replies,            \* index -> the (data, errors) execute_query returned
    access_log,         \* index -> success flag passed to record_endpoint_access
    overtaken           \* an operation completed before an earlier one

registry == <<endpoints, endpoint_schemas, tool_to_endpoint,
              endpoint_to_tools, endpoint_stats, last_updated>>
callervars == <<lock, pc, calls, last, fetching, initialized>>
batchvars == <<batch, opc, opres, results, response, gateway_calls, replies,
               access_log, overtaken>>
vars == <<endpoints, endpoint_schemas, tool_to_endpoint, endpoint_to_tools,
          endpoint_stats, last_updated, lock, pc, now, calls, last,
          fetching, initialized, batch, opc, opres, results, response, gateway_calls,
          replies,
          access_log, overtaken>>

\* ------------------------------------------------------- dictionary helpers
EmptyMap == [x \in {} |-> 0]
Put(f, k, v) == [x \in (DOMAIN f) \cup {k} |-> IF x = k THEN v ELSE f[x]]
Pop(f, k) == [x \in (DOMAIN f) \ {k} |-> f[x]]
Get(f, k, d) == IF k \in DOMAIN f THEN f[k] ELSE d

\* The record kept of a registry call: its arguments, the locals the claims
\* mention and its return value (ok/count/val; pending = not yet returned).
\* For get_schema_async, count is the number of introspection requests the
\* call has made.
NoCall ==
    [op |-> "none", name |-> None, tool |-> None,
     info |-> None, schema |-> None, flag |-> FALSE, max_age |-> -1,
     existed |-> FALSE, old |-> None, tools |-> {}, stale |-> {},
     pending |-> FALSE, ok |-> FALSE, count |-> -1, val |-> None]

\* No batch invocation yet, and no response returned yet.
NoBatch ==
    [status |-> "idle", operations |-> <<>>, execution_mode |-> None,
     mode |-> None, continue_on_error |-> FALSE, start_time |-> NoTime]
NoResponse == [returned |-> FALSE]

\* No get_schema_async call is waiting for an introspection.
NoFetch == [name |-> None, use_cache |-> FALSE]

\* ------------------------------------------------------------ construction
Init ==
    /\ endpoints = EmptyMap
    /\ endpoint_schemas = EmptyMap
    /\ tool_to_endpoint = EmptyMap
    /\ endpoint_to_tools = EmptyMap
    /\ endpoint_stats = EmptyMap
    /\ last_updated = EmptyMap
    /\ lock = Free
    /\ pc = [c \in Callers |-> "idle"]
    /\ now = 0
    /\ calls = 0
    /\ last = NoCall
    /\ fetching = [c \in Callers |-> NoFetch]
    /\ initialized = TRUE
    /\ batch = NoBatch
    /\ opc = <<>>
    /\ opres = <<>>
    /\ results = <<>>
    /\ response = NoResponse
    /\ gateway_calls = {}
    /\ replies = EmptyMap
    /\ access_log = EmptyMap
    /\ overtaken = FALSE

\* ------------------------------------------------------------------- clock
Tick ==
    /\ now < MaxTime
    /\ now' = now + 1
    /\ UNCHANGED <<registry, lock, pc, calls, last, fetching, initialized,
                   batchvars>>

\* ------------------------------------------------------------- constructor
\* A constructor that assigns the dictionaries whenever it runs.
ConstructResets(c) ==
    /\ pc[c] = "idle"
    /\ calls < MaxCalls
    /\ calls' = calls + 1
    /\ endpoints' = EmptyMap
    /\ endpoint_schemas' = EmptyMap
    /\ tool_to_endpoint' = EmptyMap
    /\ endpoint_to_tools' = EmptyMap
    /\ endpoint_stats' = EmptyMap
    /\ last_updated' = EmptyMap
    /\ initialized' = TRUE
    /\ last' = [NoCall EXCEPT !.op = "construct", !.ok = TRUE]
    /\ UNCHANGED <<lock, pc, now, fetching, batchvars>>

\* EndpointRegistryService() called again: __new__ returns the instance that
\* exists, and __init__ assigns the dictionaries only when _initialized is
\* not set.  The constructor takes no lock and does not suspend.
Construct(c) ==
    /\ pc[c] = "idle"
    /\ calls < MaxCalls
    /\ calls' = calls + 1
    /\ IF ~initialized
       THEN /\ endpoints' = EmptyMap
            /\ endpoint_schemas' = EmptyMap
            /\ tool_to_endpoint' = EmptyMap
            /\ endpoint_to_tools' = EmptyMap
            /\ endpoint_stats' = EmptyMap
            /\ last_updated' = EmptyMap
            /\ initialized' = TRUE
       ELSE UNCHANGED <<registry, initialized>>
    /\ last' = [NoCall EXCEPT !.op = "construct", !.ok = TRUE]
    /\ UNCHANGED <<lock, pc, now, fetching, batchvars>>

\* -------------------------------------------------------------------- lock
\* A body that runs without taking the lock.
EnterWithoutLock(c) ==
    /\ pc[c] = "idle"
    /\ calls < MaxCalls
    /\ calls' = calls + 1
    /\ UNCHANGED <<batchvars, fetching, initialized>>

\* `async with self._lock:` for a caller that is not inside an operation:
\* asyncio.Lock.acquire returns at once when the lock is free.
Enter(c) ==
    /\ pc[c] = "idle"
    /\ lock = Free
    /\ calls < MaxCalls
    /\ calls' = calls + 1
    /\ UNCHANGED <<batchvars, fetching, initialized>>

\* The lock is free again when the body returns; the caller is idle.
Released(c) ==
    /\ UNCHANGED <<lock, pc>>

\* A caller that calls any registry operation while the lock is taken
\* suspends inside asyncio.Lock.acquire until the lock is released.
WaitForLock(c) ==
    /\ pc[c] = "idle"
    /\ lock # Free
    /\ pc' = [pc EXCEPT ![c] = "wait_lock"]
    /\ UNCHANGED <<registry, lock, now, calls, last, fetching, initialized,
                   batchvars>>

\* ----------------------------------------------------------------- readers
GetEndpoint(name) == Get(endpoints, name, None)
GetEndpointSchema(name) == Get(endpoint_schemas, name, None)
GetEndpointForTool(tool) == Get(tool_to_endpoint, tool, None)
GetToolsForEndpoint(name) == Get(endpoint_to_tools, name, {})
GetEndpointStats(name) == Get(endpoint_stats, name, EmptyMap)
IsEndpointRegistered(name) == name \in DOMAIN endpoints
GetEndpointCount == Cardinality(DOMAIN endpoints)
GetTotalToolCount == Cardinality(DOMAIN tool_to_endpoint)

\* The time of the update made longest ago.
LastRegistryUpdateOldest ==
    IF DOMAIN last_updated = {} THEN NoTime
    ELSE CHOOSE t \in {last_updated[n] : n \in DOMAIN last_updated} :
            \A n \in DOMAIN last_updated : t <= last_updated[n]

\* max(self._last_updated.values()) if self._last_updated else None
LastRegistryUpdate ==
    IF DOMAIN last_updated = {} THEN NoTime
    ELSE CHOOSE t \in {last_updated[n] : n \in DOMAIN last_updated} :
            \A n \in DOMAIN last_updated : last_updated[n] <= t

\* get_registry_summary takes no lock: it is a plain function, which on the
\* event loop runs between two steps of the other callers.
GetRegistrySummary ==
    [total_endpoints |-> Cardinality(DOMAIN endpoints),
     total_tools |-> Cardinality(DOMAIN tool_to_endpoint),
     endpoints_with_schema |-> Cardinality(DOMAIN endpoint_schemas),
     last_registry_update |-> LastRegistryUpdate]

\* ------------------------------------------------------- register_endpoint
NewStats(t, schema) ==
    [registered_at |-> t,
     last_accessed |-> NoTime,
     access_count |-> 0,
     tool_count |-> 0,
     schema_version |-> IF schema # None THEN schema ELSE "",
     last_introspection |-> NoTime,
     error_count |-> 0,
     success_count |-> 0]

\* A registration that keeps the record already stored under the name.
StoreEndpointFirstWins(eps, name, info) ==
    IF name \in DOMAIN eps THEN eps ELSE Put(eps, name, info)

\* self._endpoints[endpoint_name] = endpoint_info
StoreEndpoint(eps, name, info) == Put(eps, name, info)

\* A registration that leaves the statistics of a registered name alone.
RegisterEndpointKeepsStats(c, name, info, schema) ==
    /\ Enter(c)
    /\ endpoints' = StoreEndpoint(endpoints, name, info)
    /\ endpoint_schemas' = IF schema # None
                           THEN Put(endpoint_schemas, name, schema)
                           ELSE endpoint_schemas
    /\ endpoint_stats' = IF name \in DOMAIN endpoint_stats
                         THEN endpoint_stats
                         ELSE Put(endpoint_stats, name, NewStats(now, schema))
    /\ last_updated' = Put(last_updated, name, now)
    /\ UNCHANGED <<tool_to_endpoint, endpoint_to_tools, now>>
    /\ last' = [NoCall EXCEPT !.op = "register_endpoint",
                              !.name = name, !.info = info,
                              !.schema = schema,
                              !.existed = (name \in DOMAIN endpoints),
                              !.old = Get(endpoints, name, None),
                              !.ok = TRUE]
    /\ Released(c)

\* async def register_endpoint: the record, the schema if one is given, a
\* new statistics block, the time of the update.
RegisterEndpoint(c, name, info, schema) ==
    /\ Enter(c)
    /\ endpoints' = StoreEndpoint(endpoints, name, info)
    /\ endpoint_schemas' = IF schema # None
                           THEN Put(endpoint_schemas, name, schema)
                           ELSE endpoint_schemas
    /\ endpoint_stats' = Put(endpoint_stats, name, NewStats(now, schema))
    /\ last_updated' = Put(last_updated, name, now)
    /\ UNCHANGED <<tool_to_endpoint, endpoint_to_tools, now>>
    /\ last' = [NoCall EXCEPT !.op = "register_endpoint",
                              !.name = name, !.info = info,
                              !.schema = schema,
                              !.existed = (name \in DOMAIN endpoints),
                              !.old = Get(endpoints, name, None),
                              !.ok = TRUE]
    /\ Released(c)

\* ----------------------------------------------------------- _remove_tool
\* The three dictionaries _remove_tool works on, as one value.
Index(t2e, e2t, stats) == [t2e |-> t2e, e2t |-> e2t, stats |-> stats]

\* A tool count kept by adding one for every registration.
SetToolCountIncrement(stats, name, e2t) ==
    IF name \in DOMAIN stats
    THEN [stats EXCEPT ![name].tool_count = stats[name].tool_count + 1]
    ELSE stats

\* self._endpoint_stats[endpoint_name]['tool_count'] = len(tool set)
SetToolCount(stats, name, e2t) ==
    IF name \in DOMAIN stats
    THEN [stats EXCEPT ![name].tool_count = Cardinality(e2t[name])]
    ELSE stats

\* A removal that leaves the tool in the tool -> endpoint dictionary.
RemoveToolKeepsReverse(ix, tool) ==
    LET en == Get(ix.t2e, tool, None)
        e2t == IF en # None /\ en # ""
               THEN Put(ix.e2t, en, Get(ix.e2t, en, {}) \ {tool})
               ELSE ix.e2t
    IN  Index(ix.t2e, e2t, ix.stats)

\* endpoint_name = self._tool_to_endpoint.get(tool_name); `if endpoint_name:`
\* is false for None and for the empty string.  _endpoint_to_tools is a
\* defaultdict(set): indexing it creates the entry.
RemoveTool(ix, tool) ==
    LET en == Get(ix.t2e, tool, None)
        e2t == IF en # None /\ en # ""
               THEN Put(ix.e2t, en, Get(ix.e2t, en, {}) \ {tool})
               ELSE ix.e2t
        stats == IF en # None /\ en # ""
                 THEN SetToolCount(ix.stats, en, e2t)
                 ELSE ix.stats
    IN  Index(Pop(ix.t2e, tool), e2t, stats)

\* An unregistration that leaves the tools of the endpoint registered.
RemoveToolsNone(ix, tools) == ix

\* for tool_name in tools_to_remove: await self._remove_tool(tool_name)
RECURSIVE RemoveTools(_, _)
RemoveTools(ix, tools) ==
    IF tools = {} THEN ix
    ELSE LET t == CHOOSE x \in tools : TRUE
         IN  RemoveTools(RemoveTool(ix, t), tools \ {t})

\* ----------------------------------------------------- unregister_endpoint
\* The "Remove endpoint data" block, one dictionary at a time.
DropEndpoint(eps, name) == Pop(eps, name)
DropSchema(schemas, name) == Pop(schemas, name)
DropStatsForgotten(stats, name) == stats
DropStats(stats, name) == Pop(stats, name)
DropLastUpdated(updated, name) == Pop(updated, name)
DropToolSet(e2t, name) == Pop(e2t, name)

UnregisterEndpoint(c, name) ==
    /\ Enter(c)
    /\ IF name \notin DOMAIN endpoints
       THEN /\ UNCHANGED registry
            /\ last' = [NoCall EXCEPT !.op = "unregister_endpoint",
                                      !.name = name, !.ok = FALSE]
       ELSE LET tools_to_remove == Get(endpoint_to_tools, name, {})
                ix == RemoveTools(Index(tool_to_endpoint, endpoint_to_tools,
                                        endpoint_stats), tools_to_remove)
            IN  /\ tool_to_endpoint' = ix.t2e
                /\ endpoints' = DropEndpoint(endpoints, name)
                /\ endpoint_schemas' = DropSchema(endpoint_schemas, name)
                /\ endpoint_stats' = DropStats(ix.stats, name)
                /\ last_updated' = DropLastUpdated(last_updated, name)
                /\ endpoint_to_tools' = DropToolSet(ix.e2t, name)
                /\ last' = [NoCall EXCEPT !.op = "unregister_endpoint",
                                          !.name = name, !.existed = TRUE,
                                          !.old = endpoints[name],
                                          !.schema = GetEndpointSchema(name),
                                          !.tools = tools_to_remove,
                                          !.ok = TRUE]
    /\ UNCHANGED now
    /\ Released(c)

\* -------------------------------------------------- update_endpoint_schema
\* A schema update that starts the statistics of the endpoint afresh, as a
\* registration does.
UpdateEndpointSchemaResetsStats(c, name, schema) ==
    /\ Enter(c)
    /\ IF name \notin DOMAIN endpoints
       THEN /\ UNCHANGED registry
            /\ last' = [NoCall EXCEPT !.op = "update_endpoint_schema",
                                      !.name = name, !.schema = schema,
                                      !.ok = FALSE]
       ELSE /\ endpoint_schemas' = Put(endpoint_schemas, name, schema)
            /\ last_updated' = Put(last_updated, name, now)
            /\ endpoint_stats' =
                 Put(endpoint_stats, name,
                     [NewStats(now, schema) EXCEPT !.last_introspection = now])
            /\ UNCHANGED <<endpoints, tool_to_endpoint, endpoint_to_tools>>
            /\ last' = [NoCall EXCEPT !.op = "update_endpoint_schema",
                                      !.name = name, !.schema = schema,
                                      !.existed = TRUE, !.ok = TRUE]
    /\ UNCHANGED now
    /\ Released(c)

UpdateEndpointSchema(c, name, schema) ==
    /\ Enter(c)
    /\ IF name \notin DOMAIN endpoints
       THEN /\ UNCHANGED registry
            /\ last' = [NoCall EXCEPT !.op = "update_endpoint_schema",
                                      !.name = name, !.schema = schema,
                                      !.ok = FALSE]
       ELSE /\ endpoint_schemas' = Put(endpoint_schemas, name, schema)
            /\ last_updated' = Put(last_updated, name, now)
            /\ endpoint_stats' =
                 IF name \in DOMAIN endpoint_stats
                 THEN [endpoint_stats EXCEPT
                         ![name].schema_version = schema,
                         ![name].last_introspection = now]
                 ELSE endpoint_stats
            /\ UNCHANGED <<endpoints, tool_to_endpoint, endpoint_to_tools>>
            /\ last' = [NoCall EXCEPT !.op = "update_endpoint_schema",
                                      !.name = name, !.schema = schema,
                                      !.existed = TRUE, !.ok = TRUE]
    /\ UNCHANGED now
    /\ Released(c)

\* ------------------------------------------------------------ register_tool
\* "Store bidirectional mapping": the two assignments of register_tool.
StoreToolMapping(ix, tool, name) ==
    Index(Put(ix.t2e, tool, name),
          Put(ix.e2t, name, Get(ix.e2t, name, {}) \cup {tool}),
          ix.stats)

\* A register_tool that does not look the endpoint up.
RegisterToolUnchecked(c, tool, name) ==
    /\ Enter(c)
    /\ LET ix == StoreToolMapping(
                    Index(tool_to_endpoint, endpoint_to_tools,
                          endpoint_stats), tool, name)
       IN  /\ tool_to_endpoint' = ix.t2e
           /\ endpoint_to_tools' = ix.e2t
           /\ endpoint_stats' = SetToolCount(ix.stats, name, ix.e2t)
           /\ UNCHANGED <<endpoints, endpoint_schemas, last_updated>>
           /\ last' = [NoCall EXCEPT !.op = "register_tool",
                                     !.name = name, !.tool = tool,
                                     !.ok = TRUE]
    /\ UNCHANGED now
    /\ Released(c)

RegisterTool(c, tool, name) ==
    /\ Enter(c)
    /\ IF name \notin DOMAIN endpoints
       THEN /\ UNCHANGED registry
            /\ last' = [NoCall EXCEPT !.op = "register_tool",
                                      !.name = name, !.tool = tool,
                                      !.ok = FALSE]
       ELSE LET ix == StoreToolMapping(
                        Index(tool_to_endpoint, endpoint_to_tools,
                              endpoint_stats), tool, name)
            IN  /\ tool_to_endpoint' = ix.t2e
                /\ endpoint_to_tools' = ix.e2t
                /\ endpoint_stats' = SetToolCount(ix.stats, name, ix.e2t)
                /\ UNCHANGED <<endpoints, endpoint_schemas, last_updated>>
                /\ last' = [NoCall EXCEPT !.op = "register_tool",
                                          !.name = name, !.tool = tool,
                                          !.existed = TRUE,
                                          !.old = Get(tool_to_endpoint, tool, None),
                                          !.ok = TRUE]
    /\ UNCHANGED now
    /\ Released(c)

\* --------------------------------------------------- record_endpoint_access
\* A recording that does not count a failed access in access_count.
RecordedStatsErrorUncounted(st, t, success) ==
    IF success
    THEN [st EXCEPT !.last_accessed = t,
                    !.access_count = st.access_count + 1,
                    !.success_count = st.success_count + 1]
    ELSE [st EXCEPT !.last_accessed = t,
                    !.error_count = st.error_count + 1]

\* A recording that writes the counters of a first access, whatever was
\* recorded before.
RecordedStatsOverwrites(st, t, success) ==
    IF success
    THEN [st EXCEPT !.last_accessed = t,
                    !.access_count = 1,
                    !.success_count = 1]
    ELSE [st EXCEPT !.last_accessed = t,
                    !.access_count = 1,
                    !.error_count = 1]

\* The statistics block after one recorded access at time t.
RecordedStats(st, t, success) ==
    IF success
    THEN [st EXCEPT !.last_accessed = t,
                    !.access_count = st.access_count + 1,
                    !.success_count = st.success_count + 1]
    ELSE [st EXCEPT !.last_accessed = t,
                    !.access_count = st.access_count + 1,
                    !.error_count = st.error_count + 1]

\* A recording that indexes the defaultdict without looking the name up,
\* which creates the block of a name that has none.
RecordAccessCreatesEntry(stats, name, t, success) ==
    IF name \in DOMAIN stats
    THEN [stats EXCEPT ![name] = RecordedStats(stats[name], t, success)]
    ELSE Put(stats, name, RecordedStats(NewStats(t, None), t, success))

\* The body of record_endpoint_access, on the statistics dictionary.
RecordAccess(stats, name, t, success) ==
    IF name \in DOMAIN stats
    THEN [stats EXCEPT ![name] = RecordedStats(stats[name], t, success)]
    ELSE stats

\* The counters are capped at MaxAccess.
CanRecord(name) ==
    name \in DOMAIN endpoint_stats
        => endpoint_stats[name].access_count < MaxAccess

RecordEndpointAccess(c, name, success) ==
    /\ Enter(c)
    /\ CanRecord(name)
    /\ endpoint_stats' = RecordAccess(endpoint_stats, name, now, success)
    /\ UNCHANGED <<endpoints, endpoint_schemas, tool_to_endpoint,
                   endpoint_to_tools, last_updated, now>>
    /\ last' = [NoCall EXCEPT !.op = "record_endpoint_access",
                              !.name = name, !.flag = success,
                              !.existed = (name \in DOMAIN endpoint_stats)]
    /\ Released(c)

\* -------------------------------------------------- cleanup_stale_endpoints
\* age_hours of one statistics block at time t.
AgeHours(st, t) ==
    IF st.last_accessed = NoTime
    THEN t - st.registered_at
    ELSE t - st.last_accessed

\* A scan that takes an endpoint of exactly the maximal age for stale.
StaleEndpointsInclusive(stats, t, max_age_hours) ==
    {n \in DOMAIN stats : AgeHours(stats[n], t) >= max_age_hours}

\* `if age_hours > max_age_hours: stale_endpoints.append(endpoint_name)`
StaleEndpoints(stats, t, max_age_hours) ==
    {n \in DOMAIN stats : AgeHours(stats[n], t) > max_age_hours}

\* With no stale endpoint the loop body never runs and the call returns 0.
\* Otherwise the first iteration awaits self.unregister_endpoint(...), whose
\* `async with self._lock` waits for a lock that this caller still holds:
\* asyncio.Lock is not reentrant, so the caller stays at "wait_nested".
CleanupStaleEndpoints(c, max_age_hours) ==
    /\ Enter(c)
    /\ LET stale_endpoints == StaleEndpoints(endpoint_stats, now, max_age_hours)
       IN  IF stale_endpoints = {}
           THEN /\ last' = [NoCall EXCEPT !.op = "cleanup_stale_endpoints",
                                          !.max_age = max_age_hours,
                                          !.count = 0]
                /\ Released(c)
           ELSE /\ last' = [NoCall EXCEPT !.op = "cleanup_stale_endpoints",
                                          !.max_age = max_age_hours,
                                          !.stale = stale_endpoints,
                                          !.pending = TRUE]
                /\ pc' = [pc EXCEPT ![c] = "wait_nested"]
                /\ lock' = c
    /\ UNCHANGED <<registry, now>>

Next ==
    \/ Tick
    \/ \E c \in Callers : Construct(c)
    \/ \E c \in Callers : WaitForLock(c)
    \/ \E c \in Callers, name \in Names, info \in Infos,
          schema \in RegisterSchemas :
            RegisterEndpoint(c, name, info, schema)
    \/ \E c \in Callers, name \in Names : UnregisterEndpoint(c, name)
    \/ \E c \in Callers, name \in Names, schema \in Versions :
            UpdateEndpointSchema(c, name, schema)
    \/ \E c \in Callers, tool \in Tools, name \in Names :
            RegisterTool(c, tool, name)
    \/ \E c \in Callers, name \in Names, success \in BOOLEAN :
            RecordEndpointAccess(c, name, success)
    \/ \E c \in Callers, max_age \in MaxAges :
            CleanupStaleEndpoints(c, max_age)

\* ================================================= batch execution engine
\* A mode selection that reads the name of the member, in any case of
\* letters, instead of its value.
ModeOfByName(execution_mode) ==
    IF execution_mode \in {"parallel", "PARALLEL"} THEN "parallel"
    ELSE "sequential"

\* ExecutionMode(execution_mode) if execution_mode is the value of a member,
\* else ExecutionMode.SEQUENTIAL.
ModeOf(execution_mode) ==
    IF execution_mode \in {"sequential", "parallel"}
    THEN execution_mode
    ELSE "sequential"

\* The operations of a batch: operation k (0-based) carries its endpoint and
\* a query of its own, here the number k.
OperationsOf(es) ==
    [k \in 1..Len(es) |-> [endpoint |-> es[k], query |-> k - 1]]

EndpointLists == UNION {[1..n -> BatchNames] : n \in 0..MaxOps}

NoData == <<>>
NoError == <<>>

\* http_client.execute_query: the (data, errors) of the reply.  An error is
\* kept by its category; data names the query it answers.  The first three
\* failures are the except clauses of execute_query, the others those of
\* _process_response.
ExecuteQuery(query, outcome) ==
    CASE outcome = "ok" -> [data |-> <<"data", query>>, errors |-> <<>>]
      [] outcome = "graphql" ->
            [data |-> <<"data", query>>, errors |-> <<"GraphQL">>]
      [] outcome = "timeout" -> [data |-> NoData, errors |-> <<"Timeout">>]
      [] outcome = "connect" ->
            [data |-> NoData, errors |-> <<"Connection">>]
      [] outcome = "fault" -> [data |-> NoData, errors |-> <<"Unexpected">>]
      [] outcome = "status" -> [data |-> NoData, errors |-> <<"HTTP">>]
      [] outcome = "json" -> [data |-> NoData, errors |-> <<"JSON">>]
      [] outcome = "shape" -> [data |-> NoData, errors |-> <<"Processing">>]

\* index=index in both BatchOperationResult(...) calls of
\* _execute_single_operation.
ResultIndex(index) == index

\* A not-found result that does not say which endpoint is missing.
NotFoundResultUnnamed(op, index) ==
    [name |-> <<"operation_", index>>, success |-> FALSE, data |-> NoData,
     error |-> <<"Endpoint not found: ", "">>,
     index |-> ResultIndex(index), endpoint |-> op.endpoint,
     query |-> op.query]

\* The BatchOperationResult for an endpoint the registry does not know.
NotFoundResult(op, index) ==
    [name |-> <<"operation_", index>>, success |-> FALSE, data |-> NoData,
     error |-> <<"Endpoint not found: ", op.endpoint>>,
     index |-> ResultIndex(index), endpoint |-> op.endpoint,
     query |-> op.query]

\* A result that counts a reply as a success whenever it carries data.
ReplyResultDataMeansSuccess(op, index, reply) ==
    [name |-> <<"operation_", index>>, success |-> reply.data # NoData,
     data |-> reply.data,
     error |-> IF reply.errors # <<>> THEN <<"; ">> \o reply.errors
               ELSE NoError,
     index |-> ResultIndex(index), endpoint |-> op.endpoint,
     query |-> op.query]

\* A failed result without an error text.
ReplyResultNoMessage(op, index, reply) ==
    [name |-> <<"operation_", index>>, success |-> Len(reply.errors) = 0,
     data |-> reply.data,
     error |-> NoError,
     index |-> ResultIndex(index), endpoint |-> op.endpoint,
     query |-> op.query]

\* A result that carries data only when the reply has no errors.
ReplyResultAllOrNothing(op, index, reply) ==
    [name |-> <<"operation_", index>>, success |-> Len(reply.errors) = 0,
     data |-> IF reply.errors # <<>> THEN NoData ELSE reply.data,
     error |-> IF reply.errors # <<>> THEN <<"; ">> \o reply.errors
               ELSE NoError,
     index |-> ResultIndex(index), endpoint |-> op.endpoint,
     query |-> op.query]

\* The BatchOperationResult built from the reply of the Gateway.
ReplyResult(op, index, reply) ==
    [name |-> <<"operation_", index>>, success |-> Len(reply.errors) = 0,
     data |-> reply.data,
     error |-> IF reply.errors # <<>> THEN <<"; ">> \o reply.errors
               ELSE NoError,
     index |-> ResultIndex(index), endpoint |-> op.endpoint,
     query |-> op.query]

Running == batch.status = "running"
NumOps == Len(batch.operations)
Sequential == batch.mode = "sequential"

\* A loop without the break.
BrokeNever == FALSE

\* A break that does not look at continue_on_error.
BrokeOnAnyFailure ==
    /\ batch.mode = "sequential"
    /\ results # <<>>
    /\ ~results[Len(results)].success

\* Sequential mode: `if not result.success and not continue_on_error: break`
\* has been taken after the result appended last.
Broke ==
    /\ batch.mode = "sequential"
    /\ results # <<>>
    /\ ~results[Len(results)].success
    /\ ~batch.continue_on_error

\* A fan-out that does not start a task once a task before it has failed.
MayStartUnlessFailed(k) ==
    IF Sequential
    THEN (\A j \in 1..(k - 1) : opc[j] = "done") /\ ~Broke
    ELSE \A j \in 1..(k - 1) : j \in DOMAIN opres => opres[j].success

\* A loop that goes on to operation k as soon as the operations before it
\* have been started.
MayStartAfterLaunch(k) ==
    IF Sequential
    THEN (\A j \in 1..(k - 1) : opc[j] # "new") /\ ~Broke
    ELSE TRUE

\* The loop of the sequential branch reaches operation k (1-based) when all
\* earlier ones have returned and no break was taken; asyncio.gather starts
\* every task.
MayStart(k) ==
    IF Sequential
    THEN (\A j \in 1..(k - 1) : opc[j] = "done") /\ ~Broke
    ELSE TRUE

\* results.append(result) in sequential mode; in parallel mode the task
\* returns the result to asyncio.gather.
Deliver(k, result) ==
    /\ opc' = [opc EXCEPT ![k] = "done"]
    /\ IF Sequential
       THEN /\ results' = Append(results, result)
            /\ UNCHANGED <<opres, overtaken>>
       ELSE /\ opres' = Put(opres, k, result)
            /\ overtaken' = (overtaken \/ \E j \in 1..(k - 1) : opc[j] # "done")
            /\ UNCHANGED results

StartBatch(es, execution_mode, continue_on_error) ==
    /\ batch.status = "idle"
    /\ batch' = [status |-> "running", operations |-> OperationsOf(es),
                 execution_mode |-> execution_mode,
                 mode |-> ModeOf(execution_mode),
                 continue_on_error |-> continue_on_error,
                 start_time |-> now]
    /\ opc' = [k \in 1..Len(es) |-> "new"]
    /\ UNCHANGED <<registry, callervars, now, opres, results, response,
                   gateway_calls, replies, access_log, overtaken>>

\* An operation that makes its Gateway call inside the lock it took to
\* resolve the endpoint.
ResolveUnderLock(k) ==
    /\ Running
    /\ k \in 1..NumOps
    /\ opc[k] = "new"
    /\ MayStart(k)
    /\ lock = Free
    /\ LET op == batch.operations[k]
       IN  IF GetEndpoint(op.endpoint) = None
           THEN /\ Deliver(k, NotFoundResult(op, k - 1))
                /\ UNCHANGED <<gateway_calls, lock>>
           ELSE /\ opc' = [opc EXCEPT ![k] = "gateway"]
                /\ gateway_calls' = gateway_calls \cup {k - 1}
                /\ lock' = BatchTask
                /\ UNCHANGED <<opres, results, overtaken>>
    /\ UNCHANGED <<registry, pc, calls, last, fetching, initialized, now,
                   batch, response,
                   replies, access_log>>

\* _execute_single_operation up to its first suspension: get_endpoint, which
\* takes the lock, and either the not-found result or the Gateway call.
\* The registry getters and http_client.execute_query return values for
\* every fault (execute_query catches Exception), so the `except Exception`
\* clauses of the engine (lines 88-96, 107-118, 141-147, 204-217) run only
\* when BatchOperationResult(...) or operation.get(...) raises, which takes
\* an operation whose fields are not of the types BatchQueryRequest
\* declares.  The operations here are of those types.
Resolve(k) ==
    /\ Running
    /\ k \in 1..NumOps
    /\ opc[k] = "new"
    /\ MayStart(k)
    /\ lock = Free
    /\ LET op == batch.operations[k]
       IN  IF GetEndpoint(op.endpoint) = None
           THEN /\ Deliver(k, NotFoundResult(op, k - 1))
                /\ UNCHANGED gateway_calls
           ELSE /\ opc' = [opc EXCEPT ![k] = "gateway"]
                /\ gateway_calls' = gateway_calls \cup {k - 1}
                /\ UNCHANGED <<opres, results, overtaken>>
    /\ UNCHANGED <<registry, callervars, now, batch, response, replies,
                   access_log>>

\* The Gateway call returns; record_endpoint_access takes the lock and the
\* result is built.
GatewayReturn(k, outcome) ==
    /\ Running
    /\ k \in 1..NumOps
    /\ opc[k] = "gateway"
    /\ lock = Free
    /\ LET op == batch.operations[k]
           reply == ExecuteQuery(op.query, outcome)
           success == Len(reply.errors) = 0
       IN  /\ endpoint_stats' =
                 RecordAccess(endpoint_stats, op.endpoint, now, success)
           /\ replies' = Put(replies, k - 1, reply)
           /\ access_log' = Put(access_log, k - 1, success)
           /\ Deliver(k, ReplyResult(op, k - 1, reply))
    /\ UNCHANGED <<endpoints, endpoint_schemas, tool_to_endpoint,
                   endpoint_to_tools, last_updated, callervars, now, batch,
                   response, gateway_calls>>

\* The values of the tasks in the reverse order of the tasks.
GatherReversed(res, n) == [k \in 1..n |-> res[n + 1 - k]]

\* results = await asyncio.gather(*tasks, return_exceptions=True): the values
\* of the tasks in the order of the tasks.
Gather(res, n) == [k \in 1..n |-> res[k]]

\* A summary that counts as failed every operation that did not succeed,
\* attempted or not.
SummaryFailedFromInput(ops, res, mode, continue_on_error, start_time, end_time) ==
    LET successful_ops == Cardinality({k \in 1..Len(res) : res[k].success})
        failed_ops == Len(ops) - successful_ops
    IN  [total_operations |-> Len(ops),
         successful_operations |-> successful_ops,
         failed_operations |-> failed_ops,
         total_execution_time |-> end_time - start_time,
         execution_mode |-> mode,
         started_at |-> start_time,
         completed_at |-> end_time,
         continue_on_error |-> continue_on_error]

\* A summary that counts as successful every result that carries data.
SummaryCountsData(ops, res, mode, continue_on_error, start_time, end_time) ==
    LET successful_ops == Cardinality({k \in 1..Len(res) : res[k].data # NoData})
        failed_ops == Len(res) - successful_ops
    IN  [total_operations |-> Len(ops),
         successful_operations |-> successful_ops,
         failed_operations |-> failed_ops,
         total_execution_time |-> end_time - start_time,
         execution_mode |-> mode,
         started_at |-> start_time,
         completed_at |-> end_time,
         continue_on_error |-> continue_on_error]

\* A summary that counts the batch itself as one operation.
SummaryCountsTheBatch(ops, res, mode, continue_on_error, start_time, end_time) ==
    LET successful_ops == Cardinality({k \in 1..Len(res) : res[k].success})
        failed_ops == Len(res) - successful_ops
    IN  [total_operations |-> Len(ops) + 1,
         successful_operations |-> successful_ops,
         failed_operations |-> failed_ops,
         total_execution_time |-> end_time - start_time,
         execution_mode |-> mode,
         started_at |-> start_time,
         completed_at |-> end_time,
         continue_on_error |-> continue_on_error]

\* "Create summary".
Summary(ops, res, mode, continue_on_error, start_time, end_time) ==
    LET successful_ops == Cardinality({k \in 1..Len(res) : res[k].success})
        failed_ops == Len(res) - successful_ops
    IN  [total_operations |-> Len(ops),
         successful_operations |-> successful_ops,
         failed_operations |-> failed_ops,
         total_execution_time |-> end_time - start_time,
         execution_mode |-> mode,
         started_at |-> start_time,
         completed_at |-> end_time,
         continue_on_error |-> continue_on_error]

\* The end of execute_batch_operations_async: gather has every value, or the
\* sequential loop is over.
Finish ==
    /\ Running
    /\ IF Sequential
       THEN Broke \/ \A k \in 1..NumOps : opc[k] = "done"
       ELSE \A k \in 1..NumOps : opc[k] = "done"
    /\ LET res == IF Sequential THEN results ELSE Gather(opres, NumOps)
       IN  /\ results' = res
           /\ response' =
                [returned |-> TRUE, results |-> res,
                 summary |-> Summary(batch.operations, res, batch.mode,
                                     batch.continue_on_error,
                                     batch.start_time, now),
                 errors |-> <<>>]
    /\ batch' = [batch EXCEPT !.status = "done"]
    /\ UNCHANGED <<registry, callervars, now, opc, opres, gateway_calls, replies,
                   access_log, overtaken>>

\* Registration and removal of the endpoint the batch names, by other callers.
Churn(c) ==
    /\ calls < MaxChurn
    /\ \/ \E info \in Infos : RegisterEndpoint(c, "A", info, None)
       \/ UnregisterEndpoint(c, "A")

BatchNext ==
    \/ \E es \in EndpointLists, m \in ExecutionModes, coe \in BOOLEAN :
            StartBatch(es, m, coe)
    \/ \E k \in 1..MaxOps : Resolve(k)
    \/ \E k \in 1..MaxOps, outcome \in Outcomes : GatewayReturn(k, outcome)
    \/ Finish
    \/ \E c \in Callers : Churn(c)

\* ------------------------------------------------------- get_schema_async
\* A service that returns the schema it fetched without storing it.
CacheSchemaNever(name, schema) == UNCHANGED registry

\* A schema update that does not look the endpoint up.
CacheSchemaUnchecked(name, schema) ==
    /\ endpoint_schemas' = Put(endpoint_schemas, name, schema)
    /\ last_updated' = Put(last_updated, name, now)
    /\ endpoint_stats' =
         IF name \in DOMAIN endpoint_stats
         THEN [endpoint_stats EXCEPT
                 ![name].schema_version = schema,
                 ![name].last_introspection = now]
         ELSE endpoint_stats
    /\ UNCHANGED <<endpoints, tool_to_endpoint, endpoint_to_tools>>

\* update_endpoint_schema(endpoint_name, schema_info) as get_schema_async
\* calls it: nothing changes when the name is not registered.
CacheSchema(name, schema) ==
    IF name \notin DOMAIN endpoints
    THEN UNCHANGED registry
    ELSE /\ endpoint_schemas' = Put(endpoint_schemas, name, schema)
         /\ last_updated' = Put(last_updated, name, now)
         /\ endpoint_stats' =
              IF name \in DOMAIN endpoint_stats
              THEN [endpoint_stats EXCEPT
                      ![name].schema_version = schema,
                      ![name].last_introspection = now]
              ELSE endpoint_stats
         /\ UNCHANGED <<endpoints, tool_to_endpoint, endpoint_to_tools>>

\* get_schema_async up to its first suspension: the cache look-up
\* (get_endpoint_schema) and get_endpoint, each of which takes and releases
\* the lock, then the introspection request.
GetSchemaAsync(c, name, use_cache) ==
    /\ pc[c] = "idle"
    /\ lock = Free
    /\ calls < MaxFetch
    /\ calls' = calls + 1
    /\ LET cached_schema == IF use_cache THEN GetEndpointSchema(name)
                            ELSE None
           call == [NoCall EXCEPT !.op = "get_schema_async", !.name = name,
                                  !.flag = use_cache, !.count = 0]
       IN  IF cached_schema # None
           THEN /\ last' = [call EXCEPT !.val = cached_schema,
                                        !.existed = TRUE]
                /\ UNCHANGED <<pc, fetching>>
           ELSE IF GetEndpoint(name) = None
           THEN /\ last' = [call EXCEPT !.val = None]
                /\ UNCHANGED <<pc, fetching>>
           ELSE /\ last' = [call EXCEPT !.pending = TRUE, !.existed = TRUE]
                /\ pc' = [pc EXCEPT ![c] = "introspect"]
                /\ fetching' = [fetching EXCEPT
                                  ![c] = [name |-> name,
                                          use_cache |-> use_cache]]
    /\ UNCHANGED <<registry, lock, now, initialized, batchvars>>

\* schema_helper.get_schema_async returns: None after any error, else the
\* parsed SchemaInfo, which `if schema_info and use_cache` stores through
\* update_endpoint_schema, under the lock.
IntrospectionReturn(c, schema_info) ==
    /\ pc[c] = "introspect"
    /\ IF schema_info # None /\ fetching[c].use_cache
       THEN /\ lock = Free
            /\ CacheSchema(fetching[c].name, schema_info)
       ELSE UNCHANGED registry
    /\ last' = [NoCall EXCEPT !.op = "get_schema_async",
                              !.name = fetching[c].name,
                              !.flag = fetching[c].use_cache,
                              !.existed = TRUE,
                              !.count = 1,
                              !.val = schema_info]
    /\ pc' = [pc EXCEPT ![c] = "idle"]
    /\ fetching' = [fetching EXCEPT ![c] = NoFetch]
    /\ UNCHANGED <<lock, now, calls, initialized, batchvars>>

\* An access recorded by another caller while the service is in use.
Touch(c) ==
    /\ calls < MaxChurn
    /\ \E name \in BatchNames, success \in BOOLEAN :
          RecordEndpointAccess(c, name, success)

\* The endpoint is unregistered by another caller, also while a call of
\* get_schema_async for it waits for its introspection.
Withdraw(c) ==
    /\ calls < MaxFetch
    /\ UnregisterEndpoint(c, "A")

\* The batches that run next to get_schema_async.
ServiceEndpointLists == UNION {[1..n -> BatchNames] : n \in 0..MaxServiceOps}

ServiceNext ==
    \/ \E es \in ServiceEndpointLists, m \in ExecutionModes, coe \in BOOLEAN :
            StartBatch(es, m, coe)
    \/ \E k \in 1..MaxOps : Resolve(k)
    \/ \E k \in 1..MaxOps, outcome \in HttpOutcomes :
            GatewayReturn(k, outcome)
    \/ Finish
    \/ \E c \in Callers : Churn(c)
    \/ \E c \in Callers, name \in BatchNames, use_cache \in BOOLEAN :
            GetSchemaAsync(c, name, use_cache)
    \/ \E c \in Callers, schema_info \in IntrospectionResults :
            IntrospectionReturn(c, schema_info)
    \/ \E c \in Callers : Touch(c)
    \/ \E c \in Callers : Withdraw(c)

Spec == Init /\ [][Next]_vars

ServiceSpec == Init /\ [][ServiceNext]_vars

\* ------------------------------------------- a batch next to the clean-up
\* cleanup_stale_endpoints called by another caller while a batch is around.
Sweep(c) ==
    /\ calls < MaxChurn
    /\ \E max_age \in MaxAges : CleanupStaleEndpoints(c, max_age)

LiveEndpointLists == UNION {[1..n -> BatchNames] : n \in 0..MaxLiveOps}

LiveNext ==
    \/ Tick
    \/ \E es \in LiveEndpointLists, m \in ExecutionModes, coe \in BOOLEAN :
            StartBatch(es, m, coe)
    \/ \E k \in 1..MaxOps : Resolve(k)
    \/ \E k \in 1..MaxOps, outcome \in Outcomes : GatewayReturn(k, outcome)
    \/ Finish
    \/ \E c \in Callers : Churn(c)
    \/ \E c \in Callers : Sweep(c)

\* The event loop runs every task that is ready: an operation that can take
\* the lock resolves its endpoint, a Gateway call that was made returns and
\* is recorded once the lock is free, and the batch returns once its loop or
\* its gather is over.
LiveFairness ==
    /\ \A k \in 1..MaxOps : WF_vars(Resolve(k))
    /\ \A k \in 1..MaxOps :
          WF_vars(\E outcome \in Outcomes : GatewayReturn(k, outcome))
    /\ WF_vars(Finish)

LiveSpec == Init /\ [][LiveNext]_vars /\ LiveFairness

\* ------------------------------------------- endpoints and their tools
\* The registry used only to register endpoints, register tools and
\* unregister endpoints, for MaxToolCalls calls: the counter of calls starts
\* as many below MaxCalls.
ToolInit ==
    /\ endpoints = EmptyMap
    /\ endpoint_schemas = EmptyMap
    /\ tool_to_endpoint = EmptyMap
    /\ endpoint_to_tools = EmptyMap
    /\ endpoint_stats = EmptyMap
    /\ last_updated = EmptyMap
    /\ lock = Free
    /\ pc = [c \in Callers |-> "idle"]
    /\ now = 0
    /\ calls = MaxCalls - MaxToolCalls
    /\ last = NoCall
    /\ fetching = [c \in Callers |-> NoFetch]
    /\ initialized = TRUE
    /\ batch = NoBatch
    /\ opc = <<>>
    /\ opres = <<>>
    /\ results = <<>>
    /\ response = NoResponse
    /\ gateway_calls = {}
    /\ replies = EmptyMap
    /\ access_log = EmptyMap
    /\ overtaken = FALSE

ToolNext ==
    \/ \E name \in Names : RegisterEndpoint("c1", name, "u1", None)
    \/ \E name \in Names, tool \in Tools : RegisterTool("c1", tool, name)
    \/ \E name \in Names : UnregisterEndpoint("c1", name)

ToolSpec == ToolInit /\ [][ToolNext]_vars

BatchSpec == Init /\ [][BatchNext]_vars

\* ===================================================== registry properties
\* A registry call has run its body in this step.
CallStep(op) == calls' = calls + 1 /\ last'.op = op

\* C1: in every reachable state every statistics block satisfies
\* access_count = success_count + error_count.
StatsInvariant ==
    \A n \in DOMAIN endpoint_stats :
        endpoint_stats[n].access_count =
            endpoint_stats[n].success_count + endpoint_stats[n].error_count

\* An endpoint with a recorded success and a recorded failure.
StatsInvariantWitness ==
    \E n \in DOMAIN endpoint_stats :
        /\ endpoint_stats[n].success_count >= 1
        /\ endpoint_stats[n].error_count >= 1
        /\ last.op = "record_endpoint_access"

\* C2: a tool is in an endpoint's tool set iff the tool -> endpoint
\* dictionary points the tool to that endpoint; so no tool is in the tool
\* sets of two endpoints.
ToolIndexConsistent ==
    \A t \in Tools, n \in Names :
        (t \in GetToolsForEndpoint(n)) <=> (GetEndpointForTool(t) = n)

\* C3: no caller waits for the registry lock while holding it.
NoCallerWaitsOnOwnLock ==
    \A c \in Callers : ~(lock = c /\ pc[c] = "wait_nested")

\* C4: cleanup_stale(max_age) unregisters every endpoint whose age exceeds
\* max_age and returns their number, after which no endpoint is stale, so
\* that a second call made at once returns 0.
CleanupSweepsStale ==
    [][CallStep("cleanup_stale_endpoints") =>
        LET stale == StaleEndpoints(endpoint_stats, now, last'.max_age)
        IN  /\ DOMAIN endpoints' = (DOMAIN endpoints) \ stale
            /\ last'.count = Cardinality(stale)
            /\ StaleEndpoints(endpoint_stats', now', last'.max_age) = {}]_vars

\* C5: after a successful unregister(E), E is not registered, no tool that
\* was associated with E has an endpoint, and E has no schema, statistics,
\* last_updated or tool-set entry.
UnregisterCascades ==
    [][(CallStep("unregister_endpoint") /\ last'.ok) =>
        LET E == last'.name
        IN  /\ Get(endpoints', E, None) = None
            /\ \A t \in Tools :
                  (t \in GetToolsForEndpoint(E) \/ GetEndpointForTool(t) = E)
                      => GetEndpointForTool(t)' = None
            /\ E \notin DOMAIN endpoint_schemas'
            /\ E \notin DOMAIN endpoint_stats'
            /\ E \notin DOMAIN last_updated'
            /\ E \notin DOMAIN endpoint_to_tools']_vars

\* An endpoint with two tools has just been unregistered.
UnregisterCascadesWitness ==
    /\ last.op = "unregister_endpoint"
    /\ last.ok
    /\ last.tools = Tools
    /\ GetEndpoint(last.name) = None
    /\ \A t \in last.tools : GetEndpointForTool(t) = None

\* C6: no state that a reader can observe has an endpoint partly removed:
\* a name without an endpoint record has no statistics, no schema, no
\* last_updated entry, no tool set, and no tool pointing to it; and the
\* summary counts no more schemas than endpoints.
NoHalfRemovedEndpoint ==
    /\ \A n \in Names :
          GetEndpoint(n) = None =>
              /\ DOMAIN GetEndpointStats(n) = {}
              /\ GetEndpointSchema(n) = None
              /\ n \notin DOMAIN last_updated
              /\ GetToolsForEndpoint(n) = {}
              /\ n \notin DOMAIN endpoint_to_tools
              /\ \A t \in Tools : GetEndpointForTool(t) # n
    /\ GetRegistrySummary.endpoints_with_schema
          <= GetRegistrySummary.total_endpoints

\* An endpoint with a schema and a tool has just been unregistered while
\* another caller is able to read.
NoHalfRemovedEndpointWitness ==
    /\ last.op = "unregister_endpoint"
    /\ last.ok
    /\ last.tools # {}
    /\ last.schema # None
    /\ lock = Free
    /\ \E c \in Callers : pc[c] = "idle"

\* C7: register(A') under a name that is registered makes get(name) return
\* A' and leaves the number of endpoints as it was; under a new name it adds
\* exactly that name.
RegisterLastWriteWins ==
    [][CallStep("register_endpoint") =>
        /\ last'.ok
        /\ Get(endpoints', last'.name, None) = last'.info
        /\ DOMAIN endpoints' = (DOMAIN endpoints) \cup {last'.name}
        /\ (IsEndpointRegistered(last'.name)
               => GetEndpointCount' = GetEndpointCount)]_vars

\* A name was registered again with another record.
RegisterLastWriteWinsWitness ==
    /\ last.op = "register_endpoint"
    /\ last.existed
    /\ last.old # last.info
    /\ GetEndpoint(last.name) = last.info
    /\ GetEndpointCount = 1

\* The callers that are inside a critical section between two steps.
Holders == {c \in Callers : pc[c] = "wait_nested"}
LockConsistent ==
    /\ Cardinality(Holders) <= 1
    /\ lock = Free <=> Holders = {}
    /\ lock # Free => Holders = {lock}

\* C19: at most one caller is inside a critical section of the registry,
\* and it is the caller that has the lock; and a step that changes a
\* dictionary of the registry is the body of a call that found the lock
\* free and took it, so that no caller mutates while another holds the
\* lock.
MutualExclusion ==
    [][/\ LockConsistent
       /\ LockConsistent'
       /\ registry' # registry =>
             /\ lock = Free
             /\ calls' = calls + 1
             /\ last'.op \in {"register_endpoint", "unregister_endpoint",
                              "update_endpoint_schema", "register_tool",
                              "record_endpoint_access"}]_vars

\* A caller is inside cleanup_stale_endpoints with the lock, the other
\* caller waits for the lock, and the registry holds what it held.
MutualExclusionWitness ==
    /\ lock = "c1"
    /\ pc["c1"] = "wait_nested"
    /\ pc["c2"] = "wait_lock"
    /\ last.op = "cleanup_stale_endpoints"
    /\ last.stale # {}
    /\ last.stale \subseteq DOMAIN endpoints

\* C20: unregister_endpoint, update_endpoint_schema and register_tool,
\* called with a name that is not registered, return False and leave the
\* six dictionaries of the registry unchanged.
NotFoundChangesNothing ==
    [][\A op \in {"unregister_endpoint", "update_endpoint_schema",
                  "register_tool"} :
          (CallStep(op) /\ last'.name \notin DOMAIN endpoints) =>
              /\ ~last'.ok
              /\ ~last'.pending
              /\ registry' = registry]_vars

\* register_tool was refused for a name that is not registered, while
\* another endpoint has a tool; the name got no tool set.
NotFoundChangesNothingWitness ==
    /\ last.op = "register_tool"
    /\ ~last.ok
    /\ last.name \notin DOMAIN endpoints
    /\ last.name \notin DOMAIN endpoint_to_tools
    /\ GetEndpointForTool(last.tool) \in DOMAIN endpoints
    /\ GetEndpointForTool(last.tool) # last.name

\* ======================================================== batch properties
Returned == response.returned
OpFailed(k) == k <= Len(results) /\ ~results[k].success

\* C8: in both modes the result at position k of the returned list has
\* index k and is the result of the k-th operation of the input: it carries
\* that operation's endpoint and query, and the data, if any, is the reply
\* to that query.
ResultsFollowInputOrder ==
    Returned =>
        \A k \in 1..Len(response.results) :
            LET r == response.results[k]
                op == batch.operations[k]
            IN  /\ r.index = k - 1
                /\ r.endpoint = op.endpoint
                /\ r.query = op.query
                /\ r.data # NoData => r.data = <<"data", op.query>>

\* A parallel batch of three operations has returned, one of which completed
\* before an earlier one.
ResultsFollowInputOrderWitness ==
    /\ Returned
    /\ batch.mode = "parallel"
    /\ overtaken
    /\ Len(response.results) = 3
    /\ \E k \in 1..3 : response.results[k].success

\* C9: in sequential mode with continue_on_error = false the result list is
\* the prefix of the input up to and including the first failing operation,
\* no operation after it has a Gateway call or a record_access, and
\* summary.total_operations is the length of the input.
SequentialEarlyStop ==
    (batch.mode = "sequential" /\ ~batch.continue_on_error) =>
        /\ \A k \in 1..NumOps :
              (\E j \in 1..(k - 1) : OpFailed(j)) =>
                  /\ opc[k] = "new"
                  /\ (k - 1) \notin gateway_calls
                  /\ (k - 1) \notin DOMAIN access_log
                  /\ Len(results) < k
        /\ Returned =>
              LET n == Len(response.results)
              IN  /\ \A k \in 1..n : response.results[k].index = k - 1
                  /\ \A k \in 1..(n - 1) : response.results[k].success
                  /\ n < NumOps => (n >= 1 /\ ~response.results[n].success)
                  /\ response.summary.total_operations = NumOps

\* Three operations, the second fails: two results, the third never ran.
SequentialEarlyStopWitness ==
    /\ Returned
    /\ batch.mode = "sequential"
    /\ ~batch.continue_on_error
    /\ NumOps = 3
    /\ Len(response.results) = 2
    /\ response.results[1].success
    /\ ~response.results[2].success
    /\ opc[3] = "new"
    /\ response.summary.total_operations = 3

\* C10: in sequential mode with continue_on_error = true every one of the N
\* operations is executed, the result list has N entries, and
\* failed_operations is the number of operations that failed.
SequentialContinuesOnError ==
    (Returned /\ batch.mode = "sequential" /\ batch.continue_on_error) =>
        /\ Len(response.results) = NumOps
        /\ \A k \in 1..NumOps : opc[k] = "done"
        /\ \A k \in 1..NumOps :
              \/ (k - 1) \in gateway_calls /\ (k - 1) \in DOMAIN access_log
              \/ response.results[k].error =
                     <<"Endpoint not found: ", batch.operations[k].endpoint>>
        /\ response.summary.failed_operations =
              Cardinality({k \in 1..NumOps : ~response.results[k].success})

\* Three operations, the second fails, the third runs: one failure counted.
SequentialContinuesOnErrorWitness ==
    /\ Returned
    /\ batch.mode = "sequential"
    /\ batch.continue_on_error
    /\ NumOps = 3
    /\ response.results[1].success
    /\ ~response.results[2].success
    /\ response.results[3].success
    /\ response.summary.failed_operations = 1

\* The result operation k hands over in the step that completes it.
Delivered(k) == IF Sequential THEN results'[Len(results')] ELSE opres'[k]
Completes(k) == opc[k] # "done" /\ opc'[k] = "done"

\* C11: an operation whose endpoint is not registered when it is resolved
\* completes in that step with success = false and the error
\* "Endpoint not found: <name>"; the step makes no Gateway call and changes
\* no statistics block, and no Gateway call or record_access is made for the
\* operation later.
UnknownEndpointFails ==
    [][\A k \in 1..NumOps :
        /\ (opc[k] = "new" /\ opc'[k] # "new"
                /\ GetEndpoint(batch.operations[k].endpoint) = None) =>
              /\ Completes(k)
              /\ ~Delivered(k).success
              /\ Delivered(k).error =
                    <<"Endpoint not found: ", batch.operations[k].endpoint>>
              /\ Delivered(k).data = NoData
              /\ gateway_calls' = gateway_calls
              /\ access_log' = access_log
              /\ endpoint_stats' = endpoint_stats
        /\ (opc[k] = "done" /\ (k - 1) \notin gateway_calls) =>
              /\ (k - 1) \notin gateway_calls'
              /\ (k - 1) \notin DOMAIN access_log']_vars

\* The endpoint was removed between two operations that name it: the first
\* succeeded, the second found no endpoint, and the statistics of the
\* batch hold one Gateway call only.
UnknownEndpointFailsWitness ==
    /\ Returned
    /\ NumOps = 2
    /\ response.results[1].success
    /\ response.results[2].error = <<"Endpoint not found: ", "A">>
    /\ gateway_calls = {0}
    /\ DOMAIN access_log = {0}

\* C12: in parallel mode, whatever continue_on_error is, every operation
\* that has not started can start as soon as the lock is free, whichever
\* siblings have failed; and the returned list has one entry per operation,
\* each of them completed.
ParallelRunsAll ==
    (batch.status # "idle" /\ batch.mode = "parallel") =>
        /\ Running =>
              \A k \in 1..NumOps : opc[k] = "new" => ENABLED Resolve(k)
        /\ Returned =>
              /\ Len(response.results) = NumOps
              /\ \A k \in 1..NumOps :
                    /\ opc[k] = "done"
                    /\ response.results[k] = opres[k]

\* A parallel batch with continue_on_error = false returned three results,
\* the first of them a failure.
ParallelRunsAllWitness ==
    /\ Returned
    /\ batch.mode = "parallel"
    /\ ~batch.continue_on_error
    /\ NumOps = 3
    /\ ~response.results[1].success
    /\ response.results[2].success
    /\ response.results[3].success
    /\ {1, 2} \subseteq gateway_calls

\* C13 as stated: every returned summary has successful_operations +
\* failed_operations = total_operations, in every mode, for every
\* continue_on_error and every pattern of failures.
SummarySumEqualsTotal ==
    Returned =>
        response.summary.successful_operations
            + response.summary.failed_operations
                = response.summary.total_operations

\* C13, amended: successful_operations + failed_operations is the number of
\* results, which is at most total_operations; it is less exactly when the
\* sequential loop stopped at a failure with continue_on_error = false,
\* before the last operation.
SummarySumEqualsAttempted ==
    Returned =>
        LET s == response.summary
            sum == s.successful_operations + s.failed_operations
            n == Len(response.results)
        IN  /\ sum = n
            /\ sum <= s.total_operations
            /\ sum < s.total_operations <=>
                  /\ batch.mode = "sequential"
                  /\ ~batch.continue_on_error
                  /\ \E k \in 1..(NumOps - 1) : OpFailed(k)

\* The first of three operations failed and stopped the batch: one failure
\* counted, none succeeded, three in total.
SummarySumEqualsAttemptedWitness ==
    /\ Returned
    /\ response.summary.total_operations = 3
    /\ response.summary.successful_operations = 0
    /\ response.summary.failed_operations = 1
    /\ Len(response.results) = 1

\* C14: in every returned response successful_operations is the number of
\* results with success = true, failed_operations is len(results) minus
\* that number, and total_operations is the length of the input list.
SummaryCountsResults ==
    Returned =>
        LET s == response.summary
            ok == {k \in 1..Len(response.results) :
                       response.results[k].success}
        IN  /\ s.successful_operations = Cardinality(ok)
            /\ s.failed_operations = Len(response.results) - Cardinality(ok)
            /\ s.total_operations = NumOps

\* A parallel batch of three: two successes, and one failure that carries
\* data next to its errors.
SummaryCountsResultsWitness ==
    /\ Returned
    /\ batch.mode = "parallel"
    /\ NumOps = 3
    /\ response.summary.successful_operations = 2
    /\ response.summary.failed_operations = 1
    /\ \E k \in 1..3 : /\ ~response.results[k].success
                       /\ response.results[k].data # NoData

\* C15: the step in which the Gateway call of operation k returns makes the
\* one record_access of that operation: on the operation's endpoint, with a
\* flag that is true exactly when the reply has no errors, which is also
\* the success of the result; no other step records an access for k.
AccessRecordedOnce ==
    [][\A k \in 1..NumOps :
        /\ (opc[k] = "gateway" /\ opc'[k] # "gateway") =>
              LET e == batch.operations[k].endpoint
                  r == Delivered(k)
              IN  /\ Completes(k)
                  /\ (k - 1) \in gateway_calls
                  /\ (k - 1) \notin DOMAIN access_log
                  /\ access_log' = Put(access_log, k - 1, r.success)
                  /\ r.success <=> (r.error = NoError)
                  /\ DOMAIN endpoint_stats' = DOMAIN endpoint_stats
                  /\ \A n \in DOMAIN endpoint_stats :
                        LET old == endpoint_stats[n]
                            new == endpoint_stats'[n]
                        IN  IF n # e THEN new = old
                            ELSE /\ new.access_count = old.access_count + 1
                                 /\ new.success_count = old.success_count
                                       + (IF r.success THEN 1 ELSE 0)
                                 /\ new.error_count = old.error_count
                                       + (IF r.success THEN 0 ELSE 1)
                                 /\ new.last_accessed = now
        /\ (opc[k] # "gateway") =>
              /\ (k - 1) \in DOMAIN access_log'
                    <=> (k - 1) \in DOMAIN access_log
              /\ (k - 1) \in DOMAIN access_log
                    => access_log'[k - 1] = access_log[k - 1]]_vars

\* Two operations on a registered endpoint, one answered without errors and
\* one with GraphQL errors next to its data: two accesses recorded, one of
\* each kind.
AccessRecordedOnceWitness ==
    /\ Returned
    /\ NumOps = 2
    /\ response.results[1].success
    /\ ~response.results[2].success
    /\ response.results[2].data # NoData
    /\ access_log = (0 :> TRUE) @@ (1 :> FALSE)
    /\ "A" \in DOMAIN endpoint_stats
    /\ endpoint_stats["A"].access_count = 2
    /\ endpoint_stats["A"].success_count = 1
    /\ endpoint_stats["A"].error_count = 1

\* The operation has completed without a reply free of errors.
Failed(k) ==
    /\ opc[k] = "done"
    /\ (k - 1) \in gateway_calls => ~access_log[k - 1]

EmptyBatch ==
    (batch.status # "idle" /\ NumOps = 0) =>
        /\ opc = <<>>
        /\ gateway_calls = {}
        /\ ENABLED Finish \/ Returned
        /\ Returned =>
              /\ response.results = <<>>
              /\ response.summary.total_operations = 0
              /\ response.summary.successful_operations = 0
              /\ response.summary.failed_operations = 0
              /\ response.errors = <<>>

\* An empty batch has returned in parallel mode.
EmptyBatchWitness ==
    /\ Returned
    /\ NumOps = 0
    /\ batch.mode = "parallel"
    /\ response.results = <<>>
    /\ response.summary.execution_mode = "parallel"

\* ====================================================== service properties
\* C18: no task has a network call in flight while it holds the registry
\* lock: while an operation of the batch waits for the Gateway the batch
\* does not hold the lock, and while get_schema_async waits for the
\* introspection its caller does not hold it; the lock taken to resolve the
\* endpoint was released before the call started and is taken again only in
\* the step in which the call returns.
GatewayOutsideLock ==
    /\ (\E k \in DOMAIN opc : opc[k] = "gateway") => lock # BatchTask
    /\ \A c \in Callers : pc[c] = "introspect" => lock # c

\* A Gateway call of the batch and an introspection are in flight at once,
\* after each of them resolved its endpoint under the lock.
GatewayOutsideLockWitness ==
    /\ \E k \in DOMAIN opc : opc[k] = "gateway" /\ (k - 1) \in gateway_calls
    /\ \E c \in Callers :
          /\ pc[c] = "introspect"
          /\ fetching[c].name \in DOMAIN endpoints
    /\ lock = Free

\* C26: every error in a triple the Gateway returned carries a category of
\* the set {Timeout, Connection, HTTP, GraphQL, JSON, Unexpected}.
GatewayTaxonomy ==
    \A i \in DOMAIN replies :
        \A j \in 1..Len(replies[i].errors) :
            replies[i].errors[j] \in {"Timeout", "Connection", "HTTP",
                                      "GraphQL", "JSON", "Unexpected"}

\* C21: a record_endpoint_access for a name that is not registered, made by
\* a caller or by an operation of a batch whose endpoint was unregistered
\* during its Gateway call, leaves the six dictionaries of the registry
\* unchanged; the name gets no statistics block.
RecordOnUnknownIsNoOp ==
    [][/\ (CallStep("record_endpoint_access")
              /\ last'.name \notin DOMAIN endpoints) =>
             /\ registry' = registry
             /\ last'.name \notin DOMAIN endpoint_stats'
       /\ \A k \in 1..NumOps :
             (opc[k] = "gateway" /\ opc'[k] = "done"
                  /\ batch.operations[k].endpoint \notin DOMAIN endpoints) =>
                 /\ (k - 1) \in DOMAIN access_log'
                 /\ registry' = registry
                 /\ batch.operations[k].endpoint
                        \notin DOMAIN endpoint_stats']_vars

\* The endpoint of an operation was unregistered during its Gateway call:
\* the operation succeeded and recorded its access, and the registry is
\* empty.
RecordOnUnknownIsNoOpWitness ==
    /\ Returned
    /\ NumOps = 1
    /\ response.results[1].success
    /\ 0 \in DOMAIN access_log
    /\ access_log[0]
    /\ DOMAIN endpoints = {}
    /\ DOMAIN endpoint_stats = {}

\* C22: after a successful register_tool(t, E) the tool_count of E is the
\* size of E's tool set, and registering t on E once more would change
\* neither of the two tool dictionaries nor the statistics.
RegisterToolIdempotent ==
    (last.op = "register_tool" /\ last.ok) =>
        LET ix == StoreToolMapping(
                      Index(tool_to_endpoint, endpoint_to_tools,
                            endpoint_stats), last.tool, last.name)
        IN  /\ last.name \in DOMAIN endpoint_stats
            /\ endpoint_stats[last.name].tool_count
                   = Cardinality(GetToolsForEndpoint(last.name))
            /\ ix.t2e = tool_to_endpoint
            /\ ix.e2t = endpoint_to_tools
            /\ SetToolCount(ix.stats, last.name, ix.e2t) = endpoint_stats

\* The tool was registered on the endpoint it already belonged to.
RegisterToolIdempotentWitness ==
    /\ last.op = "register_tool"
    /\ last.ok
    /\ last.old = last.name
    /\ GetToolsForEndpoint(last.name) = {last.tool}
    /\ endpoint_stats[last.name].tool_count = 1

\* C23: a successful update_endpoint_schema(E, s) stores s as the schema of
\* E, sets schema_version and last_introspection in the statistics of E and
\* the last-updated time of E, and changes nothing else: not the other
\* fields of E's statistics, not the endpoint records, not the tool
\* dictionaries, not what is kept for other endpoints.
UpdateSchemaFrame ==
    [][(CallStep("update_endpoint_schema") /\ last'.ok) =>
          LET E == last'.name
              s == last'.schema
          IN  /\ E \in DOMAIN endpoints
              /\ endpoint_schemas' = Put(endpoint_schemas, E, s)
              /\ last_updated' = Put(last_updated, E, now)
              /\ DOMAIN endpoint_stats' = DOMAIN endpoint_stats
              /\ \A n \in DOMAIN endpoint_stats \ {E} :
                     endpoint_stats'[n] = endpoint_stats[n]
              /\ E \in DOMAIN endpoint_stats
              /\ endpoint_stats'[E].schema_version = s
              /\ endpoint_stats'[E].last_introspection = now
              /\ \A f \in {"registered_at", "last_accessed", "access_count",
                           "tool_count", "error_count", "success_count"} :
                     endpoint_stats'[E][f] = endpoint_stats[E][f]
              /\ UNCHANGED <<endpoints, tool_to_endpoint,
                             endpoint_to_tools>>]_vars

\* The schema of an endpoint with a recorded access was updated while a
\* second endpoint was registered.
UpdateSchemaFrameWitness ==
    /\ last.op = "update_endpoint_schema"
    /\ last.ok
    /\ Cardinality(DOMAIN endpoints) = 2
    /\ endpoint_stats[last.name].access_count > 0
    /\ endpoint_stats[last.name].schema_version = last.schema
    /\ endpoint_schemas[last.name] = last.schema

\* C24: in every state, whoever holds the lock, the summary describes that
\* one state: total_endpoints is the number of registered names, total_tools
\* the number of tools that resolve to an endpoint, endpoints_with_schema
\* the number of names with a cached schema, which is at most
\* total_endpoints, and last_registry_update is unset when nothing is
\* registered and otherwise the latest of the last-updated times.
SummaryIsSnapshot ==
    LET s == GetRegistrySummary
    IN  /\ s.total_endpoints
               = Cardinality({n \in Names : IsEndpointRegistered(n)})
        /\ s.total_tools
               = Cardinality({t \in Tools : GetEndpointForTool(t) # None})
        /\ s.endpoints_with_schema
               = Cardinality({n \in Names : GetEndpointSchema(n) # None})
        /\ s.endpoints_with_schema <= s.total_endpoints
        /\ s.total_endpoints = 0 => s.last_registry_update = NoTime
        /\ s.total_endpoints > 0 =>
               /\ \E n \in Names : /\ IsEndpointRegistered(n)
                                   /\ n \in DOMAIN last_updated
                                   /\ s.last_registry_update = last_updated[n]
               /\ \A n \in DOMAIN last_updated :
                      last_updated[n] <= s.last_registry_update

\* Two endpoints registered at different times, one of them with a schema
\* and a tool, read while a caller holds the lock.
SummaryIsSnapshotWitness ==
    /\ GetRegistrySummary.total_endpoints = 2
    /\ GetRegistrySummary.endpoints_with_schema = 1
    /\ \E n, m \in DOMAIN last_updated :
          /\ last_updated[n] < last_updated[m]
          /\ GetRegistrySummary.last_registry_update = last_updated[m]
    /\ lock # Free

\* C25: a batch whose execution_mode is "parallel" runs in parallel mode; a
\* batch with any other execution_mode runs as a sequential batch does: at
\* most one operation is at the Gateway, an operation is started only when
\* all before it are done, nothing is started after a failure unless
\* continue_on_error is set, the results are appended in input order, and
\* the summary reports the mode "sequential".
OtherModesAreSequential ==
    batch.status # "idle" =>
        IF batch.execution_mode = "parallel"
        THEN /\ ~Returned => results = <<>>
             /\ Returned =>
                   /\ response.summary.execution_mode = "parallel"
                   /\ Len(response.results) = NumOps
        ELSE /\ Cardinality({k \in 1..NumOps : opc[k] = "gateway"}) <= 1
             /\ \A k \in 1..NumOps :
                   opc[k] # "new" => \A j \in 1..(k - 1) : opc[j] = "done"
             /\ ~batch.continue_on_error =>
                   \A k \in 1..NumOps :
                       (\E j \in 1..(k - 1) : OpFailed(j)) => opc[k] = "new"
             /\ DOMAIN opres = {}
             /\ \A k \in 1..Len(results) : results[k].index = k - 1
             /\ Returned =>
                   /\ response.summary.execution_mode = "sequential"
                   /\ response.results = results

\* A batch of three operations started with the mode "PARALLEL" stopped at
\* its second operation, which failed.
OtherModesAreSequentialWitness ==
    /\ Returned
    /\ batch.execution_mode = "PARALLEL"
    /\ ~batch.continue_on_error
    /\ NumOps = 3
    /\ Len(response.results) = 2
    /\ ~response.results[2].success
    /\ opc[3] = "new"
    /\ response.summary.execution_mode = "sequential"

\* The result r reports the reply to operation i (0-based) as a failure and
\* carries the data of that reply.
KeepsPartialData(r, i) ==
    /\ ~r.success
    /\ r.error # NoError
    /\ Len(r.error) > 1
    /\ r.data = replies[i].data
    /\ r.data = <<"data", batch.operations[i + 1].query>>

SequentialOneAtATime ==
    Sequential =>
        /\ Cardinality({k \in 1..NumOps : opc[k] = "gateway"}) <= 1
        /\ \A k \in 1..NumOps :
              opc[k] # "new" =>
                  \A j \in 1..(k - 1) :
                      /\ opc[j] = "done"
                      /\ Len(results) >= j
                      /\ (j - 1) \in gateway_calls
                             => (j - 1) \in DOMAIN access_log

\* The first operation is done and recorded, the second is at the Gateway,
\* the third has not been started.
SequentialOneAtATimeWitness ==
    /\ Running
    /\ Sequential
    /\ NumOps = 3
    /\ opc = <<"done", "gateway", "new">>
    /\ DOMAIN access_log = {0}
    /\ gateway_calls = {0, 1}

\* C30: right after register_endpoint, for a new name and for a registered
\* one, the statistics of the name are those of a new endpoint: the four
\* counters are 0, last_accessed and last_introspection are unset, and
\* registered_at is the time of this registration.
RegisterInstallsFreshStats ==
    last.op = "register_endpoint" =>
        /\ last.name \in DOMAIN endpoint_stats
        /\ LET st == endpoint_stats[last.name]
           IN  /\ st.access_count = 0
               /\ st.success_count = 0
               /\ st.error_count = 0
               /\ st.tool_count = 0
               /\ st.last_accessed = NoTime
               /\ st.last_introspection = NoTime
               /\ st.registered_at = last_updated[last.name]

\* A name that was registered, and has a tool, has been registered again.
RegisterInstallsFreshStatsWitness ==
    /\ last.op = "register_endpoint"
    /\ last.existed
    /\ GetToolsForEndpoint(last.name) # {}
    /\ endpoint_stats[last.name].tool_count = 0
    /\ endpoint_stats[last.name].access_count = 0

\* C29: a batch running in parallel mode eventually returns.
ParallelBatchReturns ==
    (Running /\ ~Sequential) ~> Returned

\* The time staleness is measured from: the last access, or the registration
\* of an endpoint that was never accessed.
ReferenceTime(n) ==
    IF endpoint_stats[n].last_accessed # NoTime
    THEN endpoint_stats[n].last_accessed
    ELSE endpoint_stats[n].registered_at

\* C31: a cleanup_stale_endpoints(max_age) step does not select, and leaves
\* as it was, every endpoint whose reference time is at most max_age hours
\* ago: its record, schema, statistics, tool set and the tools that point to
\* it are unchanged.
CleanupKeepsFresh ==
    [][CallStep("cleanup_stale_endpoints") =>
          \A n \in DOMAIN endpoints :
              (n \in DOMAIN endpoint_stats
                   /\ now - ReferenceTime(n) <= last'.max_age) =>
                  /\ n \notin last'.stale
                  /\ n \in DOMAIN endpoints'
                  /\ endpoints'[n] = endpoints[n]
                  /\ Get(endpoint_schemas', n, None) = GetEndpointSchema(n)
                  /\ n \in DOMAIN endpoint_stats'
                  /\ endpoint_stats'[n] = endpoint_stats[n]
                  /\ Get(endpoint_to_tools', n, {}) = GetToolsForEndpoint(n)
                  /\ \A t \in Tools :
                         GetEndpointForTool(t) = n
                             => Get(tool_to_endpoint', t, None) = n]_vars

\* A clean-up with max_age 0 found one endpoint stale and kept another one,
\* registered an hour before and accessed within the hour.
CleanupKeepsFreshWitness ==
    /\ last.op = "cleanup_stale_endpoints"
    /\ last.max_age = 0
    /\ Cardinality(last.stale) = 1
    /\ \E n \in DOMAIN endpoints \ last.stale :
          /\ endpoint_stats[n].registered_at < now
          /\ endpoint_stats[n].last_accessed = now

ConstructionKeepsRegistry ==
    [][CallStep("construct") =>
          /\ registry' = registry
          /\ initialized'
          /\ lock' = lock
          /\ \A n \in Names :
                /\ Get(endpoints', n, None) = GetEndpoint(n)
                /\ Get(endpoint_schemas', n, None) = GetEndpointSchema(n)
                /\ Get(endpoint_stats', n, EmptyMap) = GetEndpointStats(n)
                /\ Get(endpoint_to_tools', n, {}) = GetToolsForEndpoint(n)]_vars

\* The service was constructed again while an endpoint with a schema, a
\* tool and a recorded access was registered.
ConstructionKeepsRegistryWitness ==
    /\ last.op = "construct"
    /\ \E n \in DOMAIN endpoints :
          /\ GetEndpointSchema(n) # None
          /\ GetToolsForEndpoint(n) # {}
          /\ endpoint_stats[n].tool_count = 1
    /\ DOMAIN tool_to_endpoint # {}

\* C34: in every state the names with a statistics block and the names with
\* a last-updated time are exactly the registered names, and every name
\* with a cached schema is registered.
DictionariesAgreeOnNames ==
    /\ DOMAIN endpoint_stats = DOMAIN endpoints
    /\ DOMAIN last_updated = DOMAIN endpoints
    /\ DOMAIN endpoint_schemas \subseteq DOMAIN endpoints

\* An endpoint was unregistered while an introspection for it was in
\* flight; the introspection has returned a schema to a caller that asked
\* for it to be cached.
DictionariesAgreeOnNamesWitness ==
    /\ last.op = "get_schema_async"
    /\ last.count = 1
    /\ last.flag
    /\ last.val # None
    /\ last.name \notin DOMAIN endpoints
    /\ DOMAIN endpoint_schemas = {}
    /\ DOMAIN endpoint_stats = {}

\* C35: for every registered endpoint the tool_count of its statistics is
\* the number of tools in its tool set.
ToolCountMatchesToolSet ==
    \A n \in DOMAIN endpoints :
        /\ n \in DOMAIN endpoint_stats
        /\ endpoint_stats[n].tool_count = Cardinality(GetToolsForEndpoint(n))

\* C36: a successful unregister_endpoint(A) leaves every other registered
\* endpoint B with the tool set and the tool_count it had, and every tool
\* that pointed to B still points to B.
UnregisterTouchesOnlyItsEndpoint ==
    [][(CallStep("unregister_endpoint") /\ last'.ok) =>
          \A B \in DOMAIN endpoints \ {last'.name} :
              /\ Get(endpoint_to_tools', B, {}) = GetToolsForEndpoint(B)
              /\ B \in DOMAIN endpoint_stats'
              /\ endpoint_stats'[B].tool_count
                     = endpoint_stats[B].tool_count
              /\ \A t \in Tools :
                     GetEndpointForTool(t) = B
                         => Get(tool_to_endpoint', t, None) = B]_vars

\* C37: every tool of the tool -> endpoint dictionary points to a registered
\* endpoint: get_endpoint_for_tool returns nothing or a registered name.
ToolsPointToRegistered ==
    /\ \A t \in DOMAIN tool_to_endpoint :
          tool_to_endpoint[t] \in DOMAIN endpoints
    /\ \A t \in Tools :
          GetEndpointForTool(t) # None
              => IsEndpointRegistered(GetEndpointForTool(t))

\* An endpoint with a tool was unregistered while a tool of another
\* endpoint stays registered.
ToolsPointToRegisteredWitness ==
    /\ last.op = "unregister_endpoint"
    /\ last.ok
    /\ last.tools # {}
    /\ \E t \in Tools \ last.tools :
          /\ GetEndpointForTool(t) # None
          /\ GetEndpointForTool(t) # last.name

\* C38: for every registered endpoint with a cached schema, the
\* schema_version of its statistics is the version of the cached schema.
SchemaVersionMatchesCache ==
    \A n \in DOMAIN endpoints :
        GetEndpointSchema(n) # None =>
            /\ n \in DOMAIN endpoint_stats
            /\ endpoint_stats[n].schema_version = GetEndpointSchema(n)

\* The operations of the batch that name endpoint n.
OperationsOn(n) == {k \in 1..NumOps : batch.operations[k].endpoint = n}

\* C39: when a parallel batch has returned, the only registry call made by
\* another caller is the registration of endpoint E, and every operation of
\* the batch that names E found it registered, the statistics of E count
\* each of these operations: access_count is their number, success_count
\* the number of their successful results and error_count the number of
\* their failed results.
NoAccessLost ==
    (Returned /\ ~Sequential /\ calls = 1
         /\ last.op = "register_endpoint") =>
        LET mine == OperationsOn(last.name)
            st == endpoint_stats[last.name]
        IN  (\A k \in mine : (k - 1) \in gateway_calls) =>
                /\ st.access_count = Cardinality(mine)
                /\ st.success_count =
                       Cardinality({k \in mine : response.results[k].success})
                /\ st.error_count =
                       Cardinality({k \in mine : ~response.results[k].success})
                /\ st.access_count = st.success_count + st.error_count

\* A parallel batch of three operations on the same endpoint has returned
\* with two successes and one failure, the first operation finishing after
\* a later one.
NoAccessLostWitness ==
    /\ Returned
    /\ ~Sequential
    /\ calls = 1
    /\ last.op = "register_endpoint"
    /\ NumOps = 3
    /\ OperationsOn(last.name) = {1, 2, 3}
    /\ gateway_calls = {0, 1, 2}
    /\ endpoint_stats[last.name].access_count = 3
    /\ endpoint_stats[last.name].success_count = 2
    /\ endpoint_stats[last.name].error_count = 1
    /\ overtaken

====
